---- MODULE Spec2Model ----
(***************************************************************************)
(* Model of bot.py: a chat front-end that relays messages to a command     *)
(* line assistant.  Handlers are coroutines of one cooperative event loop; *)
(* a handler runs without interruption between two awaits, and several     *)
(* handlers may be in flight at once (spec section 5).  Every action below *)
(* is the code a handler runs from the completion of one await up to and   *)
(* including the effect of the next awaited call; the outcome of that call *)
(* is chosen when it is issued and acted upon when the handler resumes.    *)
(* Where an action stops earlier than the next await, the remainder up to  *)
(* that await touches no state shared between handlers.                    *)
(***************************************************************************)
EXTENDS Integers, Sequences, FiniteSets, TLC

(***************************************************************************)
(* Bounds of the model.                                                    *)
(***************************************************************************)
NumTasks == 2      \* handlers that can be in flight together
MaxEvents == 2     \* updates dispatched in one behaviour

Tasks == 1..NumTasks

None == "<None>"

(***************************************************************************)
(* Texts.  A text is a sequence of runs [ch, n]: n copies of character ch. *)
(* Adjacent runs have different characters and n > 0, so two texts are     *)
(* equal as strings iff they are equal as run sequences.                   *)
(***************************************************************************)
Run(c, k) == [ch |-> c, n |-> k]

\* len(s)
RECURSIVE StrLen(_)
StrLen(s) == IF s = <<>> THEN 0 ELSE Head(s).n + StrLen(Tail(s))

IsSpace(c) == c \in {" ", "\n"}

RECURSIVE LStrip(_)
LStrip(s) ==
    IF s = <<>> THEN <<>>
    ELSE IF IsSpace(Head(s).ch) THEN LStrip(Tail(s)) ELSE s

RECURSIVE RStrip(_)
RStrip(s) ==
    IF s = <<>> THEN <<>>
    ELSE IF IsSpace(s[Len(s)].ch)
         THEN RStrip(SubSeq(s, 1, Len(s) - 1))
         ELSE s

\* str.strip()
Strip(s) == RStrip(LStrip(s))

\* a + b on strings; the runs that meet are merged when they are the same character
Concat(a, b) ==
    IF a = <<>> THEN b
    ELSE IF b = <<>> THEN a
    ELSE LET la == a[Len(a)]
             hb == Head(b)
         IN  IF la.ch = hb.ch
             THEN SubSeq(a, 1, Len(a) - 1)
                    \o <<Run(la.ch, la.n + hb.n)>> \o Tail(b)
             ELSE a \o b

TELEGRAM_MAX_LENGTH == 4096

\* "(empty response)": 16 characters
EmptyResponse == <<Run("(", 1), Run("e", 5), Run(" ", 1), Run("r", 8), Run(")", 1)>>
\* "Error calling Claude: ": 22 characters
ErrorCallingPrefix ==
    <<Run("E", 5), Run(" ", 1), Run("c", 7), Run(" ", 1), Run("C", 6), Run(":", 1), Run(" ", 1)>>
\* "Error: ": 7 characters
ErrorPrefix == <<Run("E", 5), Run(":", 1), Run(" ", 1)>>
\* "Error: 'claude' command not found. ... in PATH.": 86 characters
NotFoundText == <<Run("E", 5), Run(":", 1), Run(" ", 1), Run("n", 79)>>

(***************************************************************************)
(* Configuration and paths.                                                *)
(***************************************************************************)
ALLOWED_USERNAME == "Alice"
OWNER_CHAT_ID == "4242"
DEFAULT_SCOPE == "/srv/bot"
HomeDir == "/home/u"

\* SCOPE_PRESETS
SCOPE_PRESETS ==
    [desktop   |-> "/home/u/Desktop",
     documents |-> "/home/u/Documents",
     downloads |-> "/home/u/Downloads",
     home      |-> HomeDir,
     here      |-> DEFAULT_SCOPE,
     root      |-> "/"]

\* SCOPE_PRESETS.get(preset, DEFAULT_SCOPE)
PresetPath(preset) ==
    IF preset \in DOMAIN SCOPE_PRESETS THEN SCOPE_PRESETS[preset] ELSE DEFAULT_SCOPE

\* os.path.expanduser on the paths the model enters
ExpandUser(p) ==
    IF p = "~" THEN HomeDir
    ELSE IF p = "~/Desktop" THEN "/home/u/Desktop"
    ELSE p

\* os.path.join(SCOPE_PRESETS["desktop"], f"claude_project_{timestamp}")
NewProjectPath(now) == SCOPE_PRESETS.desktop \o "/claude_project_" \o ToString(now)

\* str.lower() on the user names the model enters
Lower(u) ==
    CASE u = "Alice" -> "alice"
      [] u = "ALICE" -> "alice"
      [] u = "Bob"   -> "bob"
      [] u = "Session" -> "session"
      [] u = "CONTINUE" -> "continue"
      [] OTHER       -> u

(***************************************************************************)
(* Session Store: the file session_data.json.                              *)
(***************************************************************************)
JsonNull == [t |-> "null", v |-> ""]
JsonString(x) == [t |-> "string", v |-> x]

ToJson(x) == IF x = None THEN JsonNull ELSE JsonString(x)
\* mutant: null is read as the empty string
FromJsonNoNull(j) == j.v
FromJson(j) == IF j.t = "null" THEN None ELSE j.v

\* json.dumps(data)
JsonDumps(data) ==
    [parses |-> TRUE, session_id |-> ToJson(data.session_id), scope |-> ToJson(data.scope)]

\* json.loads(text), applied to a text that parses
JsonLoads(text) ==
    [session_id |-> FromJson(text.session_id), scope |-> FromJson(text.scope)]

\* a file that does not exist, and one whose content is not JSON
NoFile == [exists |-> FALSE, text |-> [parses |-> FALSE, session_id |-> JsonNull, scope |-> JsonNull]]
GarbageFile == [exists |-> TRUE, text |-> [parses |-> FALSE, session_id |-> JsonNull, scope |-> JsonNull]]

DefaultSession == [session_id |-> None, scope |-> DEFAULT_SCOPE]

\* mutant: the content of an existing file is used whether it parses or not
load_session_dataUnguarded(file) ==
    IF file.exists THEN JsonLoads(file.text) ELSE DefaultSession

\* SESSION_FILE.exists(), json.loads of its text, and the default on any failure
load_session_data(file) ==
    IF file.exists /\ file.text.parses THEN JsonLoads(file.text) ELSE DefaultSession

save_session_data(data) == [exists |-> TRUE, text |-> JsonDumps(data)]

(***************************************************************************)
(* The access gate.  A user is a record with a username, or NoUser.        *)
(***************************************************************************)
NoUser == [present |-> FALSE, username |-> None]
User(name) == [present |-> TRUE, username |-> name]

\* the truth value of an optional string: false when it is None or empty
Truthy(x) == x # None /\ x # ""

\* mutant: an update without a username is let in
is_allowed_userNameless(user) ==
    IF user.present /\ Truthy(user.username)
    THEN Lower(user.username) = Lower(ALLOWED_USERNAME)
    ELSE TRUE

\* mutant: any update with a username is let in
is_allowed_userAnyName(user) == user.present /\ Truthy(user.username)

\* user = update.effective_user; user and user.username and the names equal in lower case
is_allowed_user(user) ==
    IF user.present /\ Truthy(user.username)
    THEN Lower(user.username) = Lower(ALLOWED_USERNAME)
    ELSE FALSE

(***************************************************************************)
(* State.                                                                  *)
(***************************************************************************)
VARIABLES
    sessionFile,   \* SESSION_FILE
    dirs,          \* the directories that exist
    imageFiles,    \* the files that exist under TEMP_DIR
    tmpFiles,      \* the files tempfile has created: records [name, content]
    claudeInPath,  \* whether the claude binary can be located
    pc,            \* per task: the await the handler is suspended at
    ev,            \* per task: the update being handled
    loc,           \* per task: the handler's local variables
    storeOps,      \* per task: its loads and saves of the Session Store
    children,      \* per task: the child processes it has spawned
    outbox,        \* per task: the outbound calls it has made
    overlap,       \* per task: another handler was in flight during it
    events         \* updates dispatched so far

vars == <<sessionFile, dirs, imageFiles, tmpFiles, claudeInPath, pc, ev, loc,
          storeOps, children, outbox, overlap, events>>

files == <<imageFiles, tmpFiles>>
env == <<dirs, claudeInPath>>

NoImage == [id |-> None, ext |-> None]
ImagePath(id, ext) == [id |-> id, ext |-> ext]

NoEvent ==
    [kind |-> "none", user |-> NoUser, text |-> None, caption |-> None, file_id |-> None,
     mime |-> None, file_name |-> None, data |-> None, args |-> <<>>]

InitLoc ==
    [session_data |-> DefaultSession, scope |-> None, session_id |-> None,
     prompt |-> None, image_path |-> NoImage, response |-> <<>>, temp_path |-> None,
     exc |-> FALSE,
     \* bookkeeping: the exits of the children, whether send_response has run, the
     \* file it staged, the timestamp read, the directories seen by isdir
     outs |-> <<>>, sent |-> FALSE, staged |-> None, now |-> 0, dirs_seen |-> {}]

InitDirs == {DEFAULT_SCOPE, HomeDir, "/"}

\* the bot starts: the session file is one of StoredFiles, left by an earlier run
InitWith(StoredFiles, Installed) ==
    /\ sessionFile \in StoredFiles
    /\ dirs = InitDirs
    /\ imageFiles = {}
    /\ tmpFiles = {}
    /\ claudeInPath \in Installed
    /\ pc = [t \in Tasks |-> "idle"]
    /\ ev = [t \in Tasks |-> NoEvent]
    /\ loc = [t \in Tasks |-> InitLoc]
    /\ storeOps = [t \in Tasks |-> <<>>]
    /\ children = [t \in Tasks |-> <<>>]
    /\ outbox = [t \in Tasks |-> <<>>]
    /\ overlap = [t \in Tasks |-> FALSE]
    /\ events = 0

(***************************************************************************)
(* Bookkeeping shared by the handlers.  The parameter I of an action is    *)
(* the record of the sets its inputs and the outcomes of its awaited calls *)
(* are drawn from.                                                         *)
(***************************************************************************)
Active(t) == pc[t] \notin {"idle", "done"}

Msg(kind, msg, body, ok) == [kind |-> kind, msg |-> msg, body |-> body, ok |-> ok]
\* a load or a save of the Session Store, with what the store held just before it
LoadOp(data) == [op |-> "load", data |-> data, prev |-> data]
SaveOp(data) == [op |-> "save", data |-> data, prev |-> load_session_data(sessionFile)]

\* where a handler is after its last await: finished, or left by an exception
After(ok) == IF ok THEN "done" ELSE "raised"

\* the event loop starts a handler on update e in the first free slot t; the handler
\* runs to its first await
Enter(t, e, npc, nloc, ops, msgs) ==
    /\ ~Active(t)
    /\ \A o \in Tasks : o < t => Active(o)
    /\ events < MaxEvents
    /\ events' = events + 1
    /\ ev' = [ev EXCEPT ![t] = e]
    /\ overlap' = [u \in Tasks |->
                     IF u = t THEN \E o \in Tasks \ {t} : Active(o)
                     ELSE IF Active(u) THEN TRUE ELSE overlap[u]]
    /\ pc' = [pc EXCEPT ![t] = npc]
    /\ loc' = [loc EXCEPT ![t] = nloc]
    /\ storeOps' = [storeOps EXCEPT ![t] = ops]
    /\ children' = [children EXCEPT ![t] = <<>>]
    /\ outbox' = [outbox EXCEPT ![t] = msgs]

\* handler t resumes at label at and runs to its next await
Resume(t, at, npc, nloc, ops, kids, msgs) ==
    /\ pc[t] = at
    /\ pc' = [pc EXCEPT ![t] = npc]
    /\ loc' = [loc EXCEPT ![t] = nloc]
    /\ storeOps' = [storeOps EXCEPT ![t] = @ \o ops]
    /\ children' = [children EXCEPT ![t] = @ \o kids]
    /\ outbox' = [outbox EXCEPT ![t] = @ \o msgs]
    /\ UNCHANGED <<ev, overlap, events>>

\* an unauthorized update: the handler returns at once
Ignore(t, e) ==
    /\ Enter(t, e, "done", InitLoc, <<>>, <<>>)
    /\ UNCHANGED <<sessionFile, files, env>>

(***************************************************************************)
(* call_claude and call_claude_new_session.                                *)
(***************************************************************************)
\* a child process: its argument vector and working directory
Child(cont, image, prompt, cwd) ==
    [continue |-> cont, image |-> image, prompt |-> prompt, cwd |-> cwd]

\* call_claude: cmd, with --continue when there is a session id
CallClaudeChild(session_id, image_path, prompt, scope) ==
    Child(IF Truthy(session_id) THEN session_id ELSE None, image_path, prompt, scope)

\* mutant: the recovery call continues the session again
NewSessionChildContinues(image_path, prompt, scope) ==
    Child("last", image_path, prompt, scope)

\* call_claude_new_session: cmd, never with --continue
NewSessionChild(image_path, prompt, scope) == Child(None, image_path, prompt, scope)

\* mutant: every failure of the child is taken for a session-invalid failure
IsSessionErrorAlways(stderr) == TRUE

\* "session" in error_msg.lower() or "continue" in error_msg.lower()
IsSessionError(stderr) ==
    \E w \in stderr.words : Lower(w) = "session" \/ Lower(w) = "continue"

\* mutant: the continuation marker is not set
MarkContinuedForgets(session_data) == session_data

\* session_data["session_id"] = "last"
MarkContinued(session_data) == [session_data EXCEPT !.session_id = "last"]

\* str(e) of the OSError a failed spawn raises
OsErrorText == <<Run("[", 1), Run("o", 30)>>

\* create_subprocess_exec finds the binary and the working directory
CanSpawn(cwd) == claudeInPath /\ cwd \in dirs

\* mutant: the error of a spawn that finds no binary is not caught
call_claudeNotFoundRaises(t) ==
    LET session_data == load_session_data(sessionFile)
        l == [loc[t] EXCEPT !.session_data = session_data, !.scope = session_data.scope,
                            !.session_id = session_data.session_id]
        load == <<LoadOp(session_data)>>
    IN  /\ IF CanSpawn(l.scope)
           THEN Resume(t, "send_action", "communicate", l, load,
                       <<CallClaudeChild(l.session_id, l.image_path, l.prompt, l.scope)>>,
                       <<>>)
           ELSE Resume(t, "send_action", "raised", [l EXCEPT !.exc = TRUE], load,
                       <<>>, <<>>)
        /\ UNCHANGED <<sessionFile, files, env>>

\* from the typing action to the spawn of the first child
call_claude(t) ==
    LET session_data == load_session_data(sessionFile)
        scope == session_data.scope
        session_id == session_data.session_id
        l == [loc[t] EXCEPT !.session_data = session_data, !.scope = scope,
                            !.session_id = session_id]
        load == <<LoadOp(session_data)>>
    IN  /\ IF CanSpawn(scope)
           THEN Resume(t, "send_action", "communicate", l, load,
                       <<CallClaudeChild(session_id, l.image_path, l.prompt, scope)>>, <<>>)
           ELSE Resume(t, "send_action", "respond", [l EXCEPT !.response = NotFoundText],
                       load, <<>>, <<>>)
        /\ UNCHANGED <<sessionFile, files, env>>

\* the first child exits
call_claude_exit(t, I) ==
    \E out \in I.exits :
        LET l == [loc[t] EXCEPT !.outs = Append(@, out)] IN
        IF out.rc # 0
        THEN /\ IF IsSessionError(out.stderr)
                THEN IF CanSpawn(l.scope)
                     THEN Resume(t, "communicate", "communicate_new", l, <<>>,
                                 <<NewSessionChild(l.image_path, l.prompt, l.scope)>>, <<>>)
                     ELSE Resume(t, "communicate", "respond",
                                 [l EXCEPT !.response = Concat(ErrorPrefix, OsErrorText)],
                                 <<>>, <<>>, <<>>)
                ELSE Resume(t, "communicate", "respond",
                            [l EXCEPT !.response = Concat(ErrorCallingPrefix, out.stderr.txt)],
                            <<>>, <<>>, <<>>)
             /\ UNCHANGED <<sessionFile, files, env>>
        ELSE IF ~Truthy(l.session_id)
        THEN LET data == MarkContinued(l.session_data) IN
             /\ sessionFile' = save_session_data(data)
             /\ Resume(t, "communicate", "respond",
                       [l EXCEPT !.session_data = data, !.response = out.stdout],
                       <<SaveOp(data)>>, <<>>, <<>>)
             /\ UNCHANGED <<files, env>>
        ELSE /\ Resume(t, "communicate", "respond", [l EXCEPT !.response = out.stdout],
                       <<>>, <<>>, <<>>)
             /\ UNCHANGED <<sessionFile, files, env>>

\* the recovery child exits
call_claude_new_session_exit(t, I) ==
    \E out \in I.exits :
        /\ Resume(t, "communicate_new", "respond",
                  [loc[t] EXCEPT !.outs = Append(@, out), !.response =
                      IF out.rc # 0 THEN Concat(ErrorPrefix, out.stderr.txt) ELSE out.stdout],
                  <<>>, <<>>, <<>>)
        /\ UNCHANGED <<sessionFile, files, env>>

(***************************************************************************)
(* send_response.                                                          *)
(***************************************************************************)
TmpNames == {"tmp" \o ToString(i) : i \in 1..(MaxEvents + 1)}

\* NamedTemporaryFile picks a name no existing file has
FreshTmp == CHOOSE n \in TmpNames : \A f \in tmpFiles : f.name # n

\* if not response.strip(): response = "(empty response)"
Normalised(response) == IF Strip(response) = <<>> THEN EmptyResponse ELSE response

\* mutant: a response of exactly TELEGRAM_MAX_LENGTH characters goes out as a file
FitsInlineStrict(response) == StrLen(response) < TELEGRAM_MAX_LENGTH

\* len(response) <= TELEGRAM_MAX_LENGTH
FitsInline(response) == StrLen(response) <= TELEGRAM_MAX_LENGTH

\* from the return of call_claude to reply_text or reply_document.  Staging the text
\* in a temporary file can succeed ("staged"), fail before the file is created
\* ("create_fails"), or fail in f.write, after NamedTemporaryFile created the file
\* ("write_fails").
send_response(t, I) ==
    LET r == Normalised(loc[t].response) IN
    IF FitsInline(r)
    THEN \E ok \in I.oks :
            /\ Resume(t, "respond", "finally", [loc[t] EXCEPT !.exc = ~ok, !.sent = TRUE],
                      <<>>, <<>>, <<Msg("text", "response", r, ok)>>)
            /\ UNCHANGED <<sessionFile, files, env>>
    ELSE \E staging \in I.stagings :
            IF staging = "staged"
            THEN \E ok \in I.oks :
                    LET f == [name |-> FreshTmp, content |-> r] IN
                    /\ tmpFiles' = tmpFiles \cup {f}
                    /\ Resume(t, "respond", "reply_document",
                              [loc[t] EXCEPT !.temp_path = f.name, !.staged = f.name,
                                             !.exc = ~ok], <<>>, <<>>,
                              <<Msg("document", "response.txt", f.content, ok)>>)
                    /\ UNCHANGED <<sessionFile, imageFiles, env>>
            ELSE /\ tmpFiles' = IF staging = "write_fails"
                                THEN tmpFiles \cup {[name |-> FreshTmp, content |-> <<>>]}
                                ELSE tmpFiles
                 /\ Resume(t, "respond", "finally",
                           [loc[t] EXCEPT !.exc = TRUE, !.sent = TRUE,
                                          !.staged = IF staging = "write_fails"
                                                     THEN FreshTmp ELSE None],
                           <<>>, <<>>, <<>>)
                 /\ UNCHANGED <<sessionFile, imageFiles, env>>

\* finally: os.unlink(temp_path)
send_response_finally(t) ==
    /\ tmpFiles' = {f \in tmpFiles : f.name # loc[t].temp_path}
    /\ Resume(t, "reply_document", "finally", [loc[t] EXCEPT !.sent = TRUE],
              <<>>, <<>>, <<>>)
    /\ UNCHANGED <<sessionFile, imageFiles, env>>

\* the handler's finally clause: if image_path.exists(): image_path.unlink()
handler_finally(t) ==
    /\ imageFiles' = imageFiles \ {loc[t].image_path}
    /\ Resume(t, "finally", After(~loc[t].exc), loc[t], <<>>, <<>>, <<>>)
    /\ UNCHANGED <<sessionFile, tmpFiles, env>>

\* error_handler: the exception that left the handler is reported to the owner; a
\* failure of that report is swallowed
error_handler(t, I) ==
    /\ IF Truthy(OWNER_CHAT_ID)
       THEN \E ok \in I.oks :
               Resume(t, "raised", "done", loc[t], <<>>, <<>>,
                      <<Msg("owner", "bot_error", <<>>, ok)>>)
       ELSE Resume(t, "raised", "done", loc[t], <<>>, <<>>, <<>>)
    /\ UNCHANGED <<sessionFile, files, env>>

(***************************************************************************)
(* handle_text, handle_photo, handle_document.                             *)
(***************************************************************************)
Event(kind, u) == [NoEvent EXCEPT !.kind = kind, !.user = u]

\* update.message.caption or "What's in this image?"
ImageCaption(caption) == IF Truthy(caption) THEN caption ELSE "What's in this image?"

\* update.message.caption or f"Received file: {document.file_name}"
FileCaption(caption, file_name) ==
    IF Truthy(caption) THEN caption
    ELSE "Received file: " \o (IF file_name = None THEN "None" ELSE file_name)

\* document.mime_type and document.mime_type.startswith("image/")
IsImageMime(mime) == Truthy(mime) /\ mime \in {"image/png", "image/jpeg"}

\* document.file_name.split(".")[-1] if document.file_name else "jpg"
Extension(file_name) ==
    CASE ~Truthy(file_name)      -> "jpg"
      [] file_name = "pic.png"   -> "png"
      [] file_name = "a.tar.gz"  -> "gz"
      [] OTHER                   -> file_name

handle_text(t, I) ==
    \E u \in I.users, txt \in I.texts :
        LET e == [Event("text", u) EXCEPT !.text = txt] IN
        IF ~is_allowed_user(u)
        THEN Ignore(t, e)
        ELSE \E ok \in I.oks :
                /\ Enter(t, e, IF ok THEN "send_action" ELSE "raised",
                         [InitLoc EXCEPT !.prompt = txt, !.exc = ~ok], <<>>,
                         <<Msg("action", "typing", <<>>, ok)>>)
                /\ UNCHANGED <<sessionFile, files, env>>

\* up to context.bot.get_file
handle_photo(t, I) ==
    \E u \in I.users, id \in I.file_ids, caption \in I.captions :
        LET e == [Event("photo", u) EXCEPT !.file_id = id, !.caption = caption] IN
        IF ~is_allowed_user(u)
        THEN Ignore(t, e)
        ELSE \E ok \in I.oks :
                /\ Enter(t, e, IF ok THEN "get_file" ELSE "raised",
                         [InitLoc EXCEPT !.prompt = ImageCaption(caption), !.exc = ~ok],
                         <<>>, <<Msg("get_file", id, <<>>, ok)>>)
                /\ UNCHANGED <<sessionFile, files, env>>

\* up to context.bot.get_file for an image, up to the typing action otherwise
handle_document(t, I) ==
    \E u \in I.users, id \in I.file_ids, caption \in I.captions,
       mime \in I.mimes, name \in I.file_names :
        LET e == [Event("document", u) EXCEPT !.file_id = id, !.caption = caption,
                                               !.mime = mime, !.file_name = name]
        IN
        IF ~is_allowed_user(u)
        THEN Ignore(t, e)
        ELSE \E ok \in I.oks :
                /\ IF IsImageMime(mime)
                   THEN Enter(t, e, IF ok THEN "get_file" ELSE "raised",
                              [InitLoc EXCEPT !.prompt = ImageCaption(caption), !.exc = ~ok],
                              <<>>, <<Msg("get_file", id, <<>>, ok)>>)
                   ELSE Enter(t, e, IF ok THEN "send_action" ELSE "raised",
                              [InitLoc EXCEPT !.prompt = FileCaption(caption, name),
                                              !.exc = ~ok],
                              <<>>, <<Msg("action", "typing", <<>>, ok)>>)
                /\ UNCHANGED <<sessionFile, files, env>>

\* image_path = TEMP_DIR / f"{file_id}.{extension}"; await file.download_to_drive.
\* The download can succeed ("saved"), fail before the file is created ("fails"), or
\* fail while the file is written ("fails_partial").
download_to_drive(t, I) ==
    \E d \in I.downloads :
        LET image_path == ImagePath(ev[t].file_id,
                                    IF ev[t].kind = "photo" THEN "jpg"
                                    ELSE Extension(ev[t].file_name))
            l == [loc[t] EXCEPT !.image_path = image_path, !.exc = d # "saved"]
        IN
        /\ imageFiles' = IF d = "fails" THEN imageFiles ELSE imageFiles \cup {image_path}
        /\ Resume(t, "get_file", IF d = "saved" THEN "download_to_drive" ELSE "raised",
                  l, <<>>, <<>>, <<Msg("download", ev[t].file_id, <<>>, d = "saved")>>)
        /\ UNCHANGED <<sessionFile, tmpFiles, env>>

\* try: await update.message.chat.send_action("typing")
image_typing(t, I) ==
    \E ok \in I.oks :
        /\ Resume(t, "download_to_drive", IF ok THEN "send_action" ELSE "finally",
                  [loc[t] EXCEPT !.exc = ~ok], <<>>, <<>>,
                  <<Msg("action", "typing", <<>>, ok)>>)
        /\ UNCHANGED <<sessionFile, files, env>>

(***************************************************************************)
(* start.                                                                  *)
(***************************************************************************)
start(t, I) ==
    \E u \in I.users, ok \in I.oks :
        LET loaded == load_session_data(sessionFile) IN
        /\ IF ~is_allowed_user(u)
           THEN Enter(t, Event("start", u), After(ok), [InitLoc EXCEPT !.exc = ~ok], <<>>,
                      <<Msg("text", "not_authorized", <<>>, ok)>>)
           ELSE Enter(t, Event("start", u), After(ok),
                      [InitLoc EXCEPT !.session_data = loaded, !.exc = ~ok],
                      <<LoadOp(loaded)>>, <<Msg("text", "welcome", <<>>, ok)>>)
        /\ UNCHANGED <<sessionFile, files, env>>

(***************************************************************************)
(* scope_cmd.                                                              *)
(***************************************************************************)
\* " ".join(context.args)
JoinArgs(args) == IF Len(args) = 1 THEN args[1] ELSE args[1] \o " " \o args[2]

\* mutant: the session is reset but the new scope is not stored
ScopeChangedKeepsScope(session_data, new_scope) ==
    [session_data EXCEPT !.session_id = None]

\* mutant: the scope is stored but the session token is kept
ScopeChangedKeepsToken(session_data, new_scope) ==
    [session_data EXCEPT !.scope = new_scope]

\* session_data["scope"] = new_scope; session_data["session_id"] = None
ScopeChanged(session_data, new_scope) ==
    [session_data EXCEPT !.scope = new_scope, !.session_id = None]

\* mutant: the directory is not checked
IsDirAlways(path) == TRUE

\* os.path.isdir
IsDir(path) == path \in dirs

scope_cmd(t, I) ==
    \E u \in I.users, args \in I.scope_args :
        LET e == [Event("scope", u) EXCEPT !.args = args]
            loaded == load_session_data(sessionFile)
        IN
        IF ~is_allowed_user(u)
        THEN Ignore(t, e)
        ELSE \E ok \in I.oks :
             /\ UNCHANGED <<files, env>>
             /\ IF args = <<>>
                THEN /\ Enter(t, e, After(ok),
                              [InitLoc EXCEPT !.session_data = loaded, !.exc = ~ok],
                              <<LoadOp(loaded)>>,
                              <<Msg("text", "current_scope", <<>>, ok)>>)
                     /\ UNCHANGED sessionFile
                ELSE LET new_scope == ExpandUser(JoinArgs(args)) IN
                     IF ~IsDir(new_scope)
                     THEN /\ Enter(t, e, After(ok),
                                   [InitLoc EXCEPT !.scope = new_scope, !.exc = ~ok,
                                                   !.dirs_seen = dirs], <<>>,
                                   <<Msg("text", "not_a_valid_directory", <<>>, ok)>>)
                          /\ UNCHANGED sessionFile
                     ELSE LET data == ScopeChanged(loaded, new_scope) IN
                          /\ sessionFile' = save_session_data(data)
                          /\ Enter(t, e, After(ok),
                                   [InitLoc EXCEPT !.session_data = data, !.scope = new_scope,
                                                   !.exc = ~ok, !.dirs_seen = dirs],
                                   <<LoadOp(loaded), SaveOp(data)>>,
                                   <<Msg("text", "scope_set", <<>>, ok)>>)

(***************************************************************************)
(* button_handler.                                                         *)
(***************************************************************************)
\* the callback data that start with "scope_", and data.replace("scope_", "")
ScopeButtons ==
    [scope_desktop |-> "desktop", scope_documents |-> "documents",
     scope_downloads |-> "downloads", scope_home |-> "home", scope_here |-> "here",
     scope_root |-> "root", scope_new |-> "new"]

\* the buttons that only show the stored state
MenuButtons == {"menu_main", "menu_scope", "menu_session", "action_status"}

\* session_data["session_id"] = None, or = "last"
SessionCleared(session_data) == [session_data EXCEPT !.session_id = None]
\* mutant: the resume button stores a token of its own
SessionResumedOther(session_data) == [session_data EXCEPT !.session_id = "resumed"]
SessionResumed(session_data) == [session_data EXCEPT !.session_id = "last"]

\* os.makedirs(new_scope, exist_ok=True) creates the directory and its parents
MakeDirs(path) == dirs \cup {SCOPE_PRESETS.desktop, path}

\* the authorization check and query.answer
button_handler(t, I) ==
    \E u \in I.users, d \in I.buttons, ok \in I.oks :
        LET e == [Event("button", u) EXCEPT !.data = d] IN
        /\ IF ~is_allowed_user(u)
           THEN Enter(t, e, After(ok), [InitLoc EXCEPT !.exc = ~ok], <<>>,
                      <<Msg("answer", "Not authorized", <<>>, ok)>>)
           ELSE Enter(t, e, IF ok THEN "answer" ELSE "raised",
                      [InitLoc EXCEPT !.exc = ~ok], <<>>, <<Msg("answer", "", <<>>, ok)>>)
        /\ UNCHANGED <<sessionFile, files, env>>

\* the branch of the button pressed, up to its edit_message_text
button_action(t, I) ==
    \E ok \in I.oks, now \in I.nows :
        LET d == ev[t].data
            loaded == load_session_data(sessionFile)
            preset == IF d \in DOMAIN ScopeButtons THEN ScopeButtons[d] ELSE None
            new_scope == IF preset = "new" THEN NewProjectPath(now) ELSE PresetPath(preset)
            made == IF preset = "new" THEN MakeDirs(new_scope) ELSE dirs
            l == [loc[t] EXCEPT !.exc = ~ok, !.now = now, !.dirs_seen = made]
            Edit(m) == <<Msg("edit", m, <<>>, ok)>>
            Load == <<LoadOp(loaded)>>
            Saved(data, m) ==
                /\ sessionFile' = save_session_data(data)
                /\ Resume(t, "answer", After(ok), [l EXCEPT !.session_data = data],
                          Load \o <<SaveOp(data)>>, <<>>, Edit(m))
            Shown(nl, ops, m) ==
                /\ Resume(t, "answer", After(ok), nl, ops, <<>>, Edit(m))
                /\ UNCHANGED sessionFile
        IN
        /\ dirs' = made
        /\ UNCHANGED <<files, claudeInPath>>
        /\ IF d \in MenuButtons
           THEN Shown([l EXCEPT !.session_data = loaded], Load, d)
           ELSE IF d \in DOMAIN ScopeButtons
           THEN IF new_scope \in made
                THEN Saved(ScopeChanged(loaded, new_scope), "scope_updated")
                ELSE Shown([l EXCEPT !.session_data = loaded, !.scope = new_scope],
                           Load, "directory_not_found")
           ELSE IF d = "session_clear"
           THEN Saved(SessionCleared(loaded), "session_cleared")
           ELSE IF d = "session_resume"
           THEN Saved(SessionResumed(loaded), "session_resumed")
           ELSE IF d = "action_myid"
           THEN Shown(l, <<>>, "your_info")
           ELSE /\ Resume(t, "answer", "done", loc[t], <<>>, <<>>, <<>>)
                /\ UNCHANGED sessionFile

(***************************************************************************)
(* send_file_cmd.                                                          *)
(***************************************************************************)
SendLimit == 50 * 1024 * 1024

\* the files /send is asked for: whether the path exists, is a regular file, its size
FileInfo(path) ==
    CASE path = "/data/big.bin"    -> [exists |-> TRUE, isfile |-> TRUE, size |-> SendLimit + 1]
      [] path = "/data/edge.bin"   -> [exists |-> TRUE, isfile |-> TRUE, size |-> SendLimit]
      [] path = "/srv/bot/pic.png" -> [exists |-> TRUE, isfile |-> TRUE, size |-> 2048]
      [] path = "/data"            -> [exists |-> TRUE, isfile |-> FALSE, size |-> 0]
      [] OTHER                     -> [exists |-> FALSE, isfile |-> FALSE, size |-> 0]

\* os.path.isabs on the paths the model enters
IsAbs(path) == path \in {"/data/big.bin", "/data/edge.bin", "/data", "/missing"}

\* os.path.join(scope, file_path)
JoinPath(scope, file_path) ==
    IF scope = "/" THEN "/" \o file_path ELSE scope \o "/" \o file_path

\* os.path.splitext(file_name)[1].lower() in image_extensions
HasImageExtension(path) == path \in {"/srv/bot/pic.png", "/home/u/pic.png", "/pic.png"}

\* mutant: a file of exactly the limit is rejected as well
TooLargeAtLimit(size) == size >= SendLimit

\* file_size > 50 * 1024 * 1024
TooLarge(size) == size > SendLimit

\* up to the first reply
send_file_cmd(t, I) ==
    \E u \in I.users, args \in I.send_args :
        LET e == [Event("send", u) EXCEPT !.args = args]
            loaded == load_session_data(sessionFile)
        IN
        IF ~is_allowed_user(u)
        THEN Ignore(t, e)
        ELSE \E ok \in I.oks :
             /\ UNCHANGED <<sessionFile, files, env>>
             /\ IF args = <<>>
                THEN Enter(t, e, After(ok), [InitLoc EXCEPT !.exc = ~ok], <<>>,
                           <<Msg("text", "usage", <<>>, ok)>>)
                ELSE LET given == JoinArgs(args)
                         file_path == IF IsAbs(given) THEN given
                                      ELSE JoinPath(loaded.scope, given)
                         info == FileInfo(file_path)
                         l == [InitLoc EXCEPT !.session_data = loaded,
                                              !.scope = loaded.scope, !.exc = ~ok]
                         Load == <<LoadOp(loaded)>>
                     IN  IF ~info.exists
                         THEN Enter(t, e, After(ok), l, Load,
                                    <<Msg("text", "file_not_found", <<>>, ok)>>)
                         ELSE IF ~info.isfile
                         THEN Enter(t, e, After(ok), l, Load,
                                    <<Msg("text", "not_a_file", <<>>, ok)>>)
                         ELSE IF TooLarge(info.size)
                         THEN Enter(t, e, IF ok THEN "done" ELSE "send_failed", l, Load,
                                    <<Msg("text", "file_too_large", <<>>, ok)>>)
                         ELSE Enter(t, e, IF ok THEN "done" ELSE "send_failed", l, Load,
                                    <<Msg(IF HasImageExtension(file_path)
                                          THEN "photo" ELSE "document",
                                          file_path, <<>>, ok)>>)

\* except Exception: await update.message.reply_text(f"Error sending file: ...")
send_file_error(t, I) ==
    \E ok \in I.oks :
        /\ Resume(t, "send_failed", After(ok), [loc[t] EXCEPT !.exc = ~ok], <<>>, <<>>,
                  <<Msg("text", "error_sending_file", <<>>, ok)>>)
        /\ UNCHANGED <<sessionFile, files, env>>

(***************************************************************************)
(* Inputs.                                                                 *)
(***************************************************************************)
Short == <<Run("a", 5)>>
Long == <<Run("a", TELEGRAM_MAX_LENGTH + 1)>>

SessionExpired == [words |-> {"Session", "expired"},
                   txt |-> <<Run("S", 7), Run(" ", 1), Run("x", 7)>>]
CannotContinue == [words |-> {"cannot", "CONTINUE"},
                   txt |-> <<Run("c", 6), Run(" ", 1), Run("C", 8)>>]
Fatal == [words |-> {"fatal"}, txt |-> <<Run("f", 5)>>]
NoStderr == [words |-> {}, txt |-> <<>>]

Exit(rc, stdout, stderr) == [rc |-> rc, stdout |-> stdout, stderr |-> stderr]

Owner == User("ALICE")
Strangers == {NoUser, User(None), User(""), User("Bob")}

AllButtons == MenuButtons \cup DOMAIN ScopeButtons
                \cup {"session_clear", "session_resume", "action_myid"}

\* session files an earlier run can have left
FreshFile == save_session_data(DefaultSession)
ContinuedFile == save_session_data([session_id |-> "last", scope |-> DEFAULT_SCOPE])

Init == InitWith({NoFile, GarbageFile, FreshFile, ContinuedFile}, BOOLEAN)

\* the inputs of the session core: every call succeeds but the child process
CoreInputs ==
    [users |-> {Owner}, texts |-> {"hello"}, captions |-> {"look"}, file_ids |-> {"f1"},
     mimes |-> {None}, file_names |-> {None},
     scope_args |-> {<<"~">>, <<"/nodir">>}, send_args |-> {<<>>},
     buttons |-> {"scope_root", "session_clear", "session_resume"},
     exits |-> {Exit(0, Short, NoStderr), Exit(1, <<>>, SessionExpired),
                Exit(2, <<>>, Fatal)},
     oks |-> {TRUE}, stagings |-> {"staged"}, downloads |-> {"saved"}, nows |-> {0}]

(***************************************************************************)
(* Spec: the session core.  Text messages, scope commands and the buttons  *)
(* that write the Session Store, handled concurrently.                     *)
(***************************************************************************)
Next ==
    \/ \E t \in Tasks : handle_text(t, CoreInputs)
    \/ \E t \in Tasks : scope_cmd(t, CoreInputs)
    \/ \E t \in Tasks : button_handler(t, CoreInputs)
    \/ \E t \in Tasks : button_action(t, CoreInputs)
    \/ \E t \in Tasks : call_claude(t)
    \/ \E t \in Tasks : call_claude_exit(t, CoreInputs)
    \/ \E t \in Tasks : call_claude_new_session_exit(t, CoreInputs)
    \/ \E t \in Tasks : send_response(t, CoreInputs)
    \/ \E t \in Tasks : handler_finally(t)

Spec == InitWith({NoFile, ContinuedFile}, BOOLEAN) /\ [][Next]_vars

(***************************************************************************)
(* SpecRecovery: text messages, photos and scope commands, handled         *)
(* concurrently, with every exit of the child process.                     *)
(***************************************************************************)
RecoveryInputs ==
    [CoreInputs EXCEPT
        !.exits = {Exit(0, Short, NoStderr), Exit(1, <<>>, SessionExpired),
                   Exit(1, <<>>, CannotContinue), Exit(2, <<>>, Fatal)},
        !.scope_args = {<<"~">>}]

NextRecovery ==
    \/ \E t \in Tasks : handle_text(t, RecoveryInputs)
    \/ \E t \in Tasks : scope_cmd(t, RecoveryInputs)
    \/ \E t \in Tasks : handle_photo(t, RecoveryInputs)
    \/ \E t \in Tasks : download_to_drive(t, RecoveryInputs)
    \/ \E t \in Tasks : image_typing(t, RecoveryInputs)
    \/ \E t \in Tasks : call_claude(t)
    \/ \E t \in Tasks : call_claude_exit(t, RecoveryInputs)
    \/ \E t \in Tasks : call_claude_new_session_exit(t, RecoveryInputs)
    \/ \E t \in Tasks : send_response(t, RecoveryInputs)
    \/ \E t \in Tasks : handler_finally(t)

SpecRecovery == InitWith({ContinuedFile}, {TRUE}) /\ [][NextRecovery]_vars

(***************************************************************************)
(* SpecMedia: photos and documents, handled concurrently; every awaited    *)
(* call can fail.                                                          *)
(***************************************************************************)
MediaInputs ==
    [CoreInputs EXCEPT
        !.mimes = {"image/png", "text/plain"}, !.file_names = {"pic.png"},
        !.exits = {Exit(0, Short, NoStderr), Exit(2, <<>>, Fatal)},
        !.oks = BOOLEAN, !.downloads = {"saved", "fails", "fails_partial"}]

NextMedia ==
    \/ \E t \in Tasks : handle_photo(t, MediaInputs)
    \/ \E t \in Tasks : handle_document(t, MediaInputs)
    \/ \E t \in Tasks : download_to_drive(t, MediaInputs)
    \/ \E t \in Tasks : image_typing(t, MediaInputs)
    \/ \E t \in Tasks : call_claude(t)
    \/ \E t \in Tasks : call_claude_exit(t, MediaInputs)
    \/ \E t \in Tasks : send_response(t, MediaInputs)
    \/ \E t \in Tasks : handler_finally(t)
    \/ \E t \in Tasks : error_handler(t, MediaInputs)

SpecMedia == InitWith({NoFile, ContinuedFile}, {TRUE}) /\ [][NextMedia]_vars

(***************************************************************************)
(* Properties.                                                             *)
(***************************************************************************)
\* what load_session_data returns now: the stored session state
Stored == load_session_data(sessionFile)

\* the session state handler t loaded before its i-th Session Store operation
LoadedBefore(t, i) ==
    LET j == CHOOSE k \in 1..i :
                 /\ storeOps[t][k].op = "load"
                 /\ \A m \in (k + 1)..(i - 1) : storeOps[t][m].op # "load"
    IN  storeOps[t][j].data

\* handler t has run call_claude on a stored state without a session token, its
\* first child has exited with code 0, and call_claude has returned
FreshCallSucceeded(t) ==
    /\ storeOps[t] # <<>>
    /\ storeOps[t][1].data.session_id = None
    /\ loc[t].outs # <<>>
    /\ loc[t].outs[1].rc = 0

\* C1: session-mutating operations are serialized: whenever a handler saves the
\* session record, every field that another handler changed in the store since this
\* handler loaded the record still has the other handler's value after the save (so a
\* scope saved while a fresh call_claude awaits its child is still the stored scope
\* once that call has recorded its continuation marker).
C1_NoLostUpdate ==
    \A t \in Tasks : \A i \in DOMAIN storeOps[t] :
        LET op == storeOps[t][i] IN
        op.op = "save" =>
            \A f \in {"scope", "session_id"} :
                op.prev[f] # LoadedBefore(t, i)[f] => op.data[f] = op.prev[f]

\* C4: from a stored state without a session token, a call_claude whose child exits
\* with code 0, with no other handler in flight during it, leaves the stored state
\* with a session token and the scope it had before the call.
C4_FreshSuccessMarksSession ==
    \A t \in Tasks :
        (Active(t) /\ ~overlap[t] /\ FreshCallSucceeded(t)) =>
            /\ Stored.session_id # None
            /\ Stored.scope = storeOps[t][1].data.scope

C4_Witness ==
    \E t \in Tasks :
        /\ pc[t] = "finally" /\ ~overlap[t] /\ FreshCallSucceeded(t)
        /\ ev[t].kind = "text"
        /\ Stored = [session_id |-> "last", scope |-> DEFAULT_SCOPE]

\* a session-invalid failure: exit code # 0 and "session" or "continue" in stderr,
\* in any letter case
SessionInvalid(out) ==
    /\ out.rc # 0
    /\ out.stderr.words \cap {"session", "Session", "SESSION",
                               "continue", "Continue", "CONTINUE"} # {}

\* what call_claude_new_session returns for an exit of its child
RecoveryOutcome(out) ==
    IF out.rc = 0 THEN out.stdout ELSE Concat(ErrorPrefix, out.stderr.txt)

\* C3: a call_claude whose first child fails as session-invalid spawns exactly one
\* recovery child, with the prompt, attachment and scope snapshot of the first child
\* and without a continuation token; what that child yields is returned, and no
\* third child is spawned.
C3_OneRecovery ==
    \A t \in Tasks :
        LET kids == children[t]
            outs == loc[t].outs
        IN  /\ Len(kids) <= 2
            /\ (outs # <<>> /\ SessionInvalid(outs[1])) =>
                  /\ Len(kids) = 2
                  /\ kids[2] = [kids[1] EXCEPT !.continue = None]
                  /\ kids[1].cwd = storeOps[t][1].data.scope
                  /\ Len(outs) = 2 => /\ loc[t].response = RecoveryOutcome(outs[2])
                                      /\ pc[t] # "communicate_new"

\* a photo sent while the session is continued and the scope has been changed since
\* the call began: both children fail as session-invalid
C3_Witness ==
    \E t \in Tasks :
        /\ pc[t] = "done"
        /\ Len(loc[t].outs) = 2
        /\ SessionInvalid(loc[t].outs[1]) /\ SessionInvalid(loc[t].outs[2])
        /\ children[t][1].continue = "last"
        /\ children[t][1].image # NoImage
        /\ children[t][2].cwd # Stored.scope

(***************************************************************************)
(* SpecScope: scope commands and every button, handled concurrently.       *)
(***************************************************************************)
ScopeInputs ==
    [CoreInputs EXCEPT
        !.scope_args = {<<>>, <<"~">>, <<"/nodir">>},
        !.buttons = AllButtons]

NextScope ==
    \/ \E t \in Tasks : scope_cmd(t, ScopeInputs)
    \/ \E t \in Tasks : button_handler(t, ScopeInputs)
    \/ \E t \in Tasks : button_action(t, ScopeInputs)

SpecScope == InitWith({NoFile, ContinuedFile}, {TRUE}) /\ [][NextScope]_vars

\* handler t has handled a request to change the scope: /scope with a path, or a
\* scope preset button that has reached its branch
ScopeRequest(t) ==
    \/ ev[t].kind = "scope" /\ ev[t].args # <<>>
    \/ ev[t].kind = "button" /\ ev[t].data \in DOMAIN ScopeButtons
         /\ \E i \in DOMAIN outbox[t] : outbox[t][i].kind = "edit"

\* the directory a scope request asks for
RequestedScope(t) ==
    IF ev[t].kind = "scope" THEN ExpandUser(JoinArgs(ev[t].args))
    ELSE IF ev[t].data = "scope_new"
         THEN NewProjectPath(loc[t].now)
         ELSE SCOPE_PRESETS[ScopeButtons[ev[t].data]]

Saves(t) == SelectSeq(storeOps[t], LAMBDA op : op.op = "save")

\* the step starts a handler in slot t
Entered(t) == events' # events /\ ~Active(t) /\ \A o \in Tasks : o < t => Active(o)

\* handler t saves the session record in the step
SavedInStep(t) ==
    /\ Entered(t) \/ Len(storeOps'[t]) > Len(storeOps[t])
    /\ storeOps'[t] # <<>>
    /\ storeOps'[t][Len(storeOps'[t])].op = "save"

\* C2: when scope-changing requests run concurrently, the stored scope is that of the
\* request whose save happened last, and the stored record is always one complete
\* record written by a single save: the store changes only in a step in which a
\* handler saves, and right after the save of a scope request the store holds exactly
\* that request's scope, with no session token.
C2_LastSaveWins ==
    [][/\ sessionFile' # sessionFile => \E t \in Tasks : SavedInStep(t)
       /\ \A t \in Tasks :
             (SavedInStep(t) /\ ScopeRequest(t)') =>
                 /\ sessionFile'.exists /\ sessionFile'.text.parses
                 /\ Stored' = [session_id |-> None, scope |-> RequestedScope(t)']
      ]_vars

\* two scope buttons pressed one after the other, both handled before either is
\* finished; the second to save has won
C2_Witness ==
    \E t1, t2 \in Tasks :
        /\ t1 # t2
        /\ pc[t1] = "done" /\ pc[t2] = "done"
        /\ overlap[t1] /\ overlap[t2]
        /\ ScopeRequest(t1) /\ ScopeRequest(t2)
        /\ Saves(t1) # <<>> /\ Saves(t2) # <<>>
        /\ RequestedScope(t1) # RequestedScope(t2)
        /\ Saves(t2)[1].prev.scope = RequestedScope(t1)
        /\ Stored.scope = RequestedScope(t2)

\* the reply that reports a path that is not a directory
ScopeError(t) ==
    \E i \in DOMAIN outbox[t] :
        outbox[t][i].msg \in {"not_a_valid_directory", "directory_not_found"}

\* C5: a scope change writes the Session Store only if the requested path is an
\* existing directory when it is checked; when it is not, the handler saves nothing
\* and sends an error message.
C5_ScopeMustExist ==
    \A t \in Tasks :
        ScopeRequest(t) =>
            LET existed == RequestedScope(t) \in loc[t].dirs_seen IN
            /\ Saves(t) # <<>> => existed
            /\ ~existed => Saves(t) = <<>> /\ ScopeError(t)

\* /scope with a missing directory and a preset whose directory is missing, both
\* refused, while the store still holds what it held
C5_Witness ==
    \E t1, t2 \in Tasks :
        /\ ScopeRequest(t1) /\ ev[t1].kind = "scope" /\ RequestedScope(t1) = "/nodir"
        /\ ScopeRequest(t2) /\ ev[t2].data = "scope_documents"
        /\ pc[t1] = "done" /\ pc[t2] = "done"
        /\ ScopeError(t1) /\ ScopeError(t2)
        /\ sessionFile = ContinuedFile

(***************************************************************************)
(* Delivery: text messages whose child prints nothing, blanks, a text of   *)
(* exactly the inline limit, and one character more; every send and every  *)
(* staging of the temporary file can fail.                                 *)
(***************************************************************************)
Blank == <<Run(" ", 2)>>
AtLimit == <<Run(" ", 1), Run("a", TELEGRAM_MAX_LENGTH - 1)>>

DeliverInputs ==
    [CoreInputs EXCEPT
        !.exits = {Exit(0, <<>>, NoStderr), Exit(0, Blank, NoStderr),
                   Exit(0, AtLimit, NoStderr), Exit(0, Long, NoStderr),
                   Exit(1, <<>>, Fatal)},
        !.oks = BOOLEAN,
        !.stagings = {"staged", "create_fails", "write_fails"}]

NextDeliver ==
    \E t \in Tasks :
        \/ handle_text(t, DeliverInputs)
        \/ call_claude(t)
        \/ call_claude_exit(t, DeliverInputs)
        \/ send_response(t, DeliverInputs)
        \/ send_response_finally(t)
        \/ handler_finally(t)
        \/ error_handler(t, DeliverInputs)

SpecDeliver == InitWith({ContinuedFile}, {TRUE}) /\ [][NextDeliver]_vars

\* the messages of one kind that handler t has issued
Issued(t, kind) == SelectSeq(outbox[t], LAMBDA m : m.kind = kind)

\* the text has no character that is not white space
IsBlank(text) == \A i \in DOMAIN text : text[i].n = 0 \/ text[i].ch \in {" ", "\n"}

\* C6: once send_response has run on a text T of at most 4096 characters, the handler
\* has issued exactly one inline message and no attachment, and the text of the
\* message is T, or "(empty response)" when T is blank.
C6_ShortInline ==
    \A t \in Tasks :
        (loc[t].sent /\ StrLen(loc[t].response) <= 4096) =>
            /\ Len(Issued(t, "text")) = 1
            /\ Issued(t, "document") = <<>>
            /\ Issued(t, "text")[1].body =
                   IF IsBlank(loc[t].response) THEN EmptyResponse ELSE loc[t].response

\* a text of exactly 4096 characters has gone out inline, unchanged
C6_Witness ==
    \E t \in Tasks :
        /\ pc[t] = "done" /\ loc[t].sent
        /\ StrLen(loc[t].response) = 4096
        /\ Issued(t, "text") = <<Msg("text", "response", AtLimit, TRUE)>>

\* C7: when send_response returns on a non-blank text T of more than 4096 characters,
\* the temporary file it staged no longer exists, whether staging and sending
\* succeeded or failed; and when both succeeded the handler has issued exactly one
\* attachment, whose content is T, and no inline message.
C7_LongAsAttachment ==
    [][\A t \in Tasks :
          (/\ ~loc[t].sent /\ loc'[t].sent
           /\ ~IsBlank(loc'[t].response)
           /\ StrLen(loc'[t].response) > 4096) =>
              /\ \A f \in tmpFiles' : f.name # loc'[t].staged
              /\ (loc'[t].temp_path # None /\ ~loc'[t].exc) =>
                    /\ Len(Issued(t, "document")') = 1
                    /\ Issued(t, "document")'[1].body = loc'[t].response
                    /\ Issued(t, "text")' = <<>>
      ]_vars

(***************************************************************************)
(* The gate: every entry point, entered by the owner (spelt in another     *)
(* case than the configured name), by another user, by a user without a    *)
(* username, and by an update without a user.                              *)
(***************************************************************************)
GateInputs ==
    [CoreInputs EXCEPT
        !.users = {Owner} \cup Strangers,
        !.mimes = {"image/png"},
        !.file_names = {"pic.png"},
        !.scope_args = {<<"~">>},
        !.buttons = {"scope_root"},
        !.exits = {Exit(0, Short, NoStderr)}]

NextGate ==
    \E t \in Tasks :
        \/ handle_text(t, GateInputs)
        \/ handle_photo(t, GateInputs)
        \/ handle_document(t, GateInputs)
        \/ start(t, GateInputs)
        \/ button_handler(t, GateInputs)
        \/ send_file_cmd(t, GateInputs)
        \/ scope_cmd(t, GateInputs)
        \/ button_action(t, GateInputs)
        \/ download_to_drive(t, GateInputs)
        \/ image_typing(t, GateInputs)
        \/ call_claude(t)
        \/ call_claude_exit(t, GateInputs)
        \/ send_response(t, GateInputs)
        \/ handler_finally(t)

SpecGate == InitWith({NoFile, ContinuedFile}, {TRUE}) /\ [][NextGate]_vars

\* the update in slot t comes from no user, from a user without a username, or from
\* a user whose name is not the configured one in any spelling of its letters' case
Unauthorized(t) ==
    /\ ev[t].kind # "none"
    /\ ev[t].user \notin {User("Alice"), User("ALICE"), User("alice")}

EntryPoints == {"text", "photo", "document", "start", "button", "send", "scope"}

\* C8: at every entry point, an update that does not come from the allowed user
\* (whatever the case of its letters), or that has no username, never reads or writes
\* the Session Store and never spawns a child process.
C8_GateFirst ==
    \A t \in Tasks :
        Unauthorized(t) =>
            /\ ev[t].kind \in EntryPoints
            /\ storeOps[t] = <<>>
            /\ children[t] = <<>>

\* a /scope command of another user has been handled while the owner's child runs,
\* and the store has not been created
C8_Witness ==
    \E t1, t2 \in Tasks :
        /\ ~Unauthorized(t1) /\ pc[t1] = "communicate" /\ children[t1] # <<>>
        /\ Unauthorized(t2) /\ ev[t2].kind = "scope" /\ ev[t2].user = User("Bob")
        /\ pc[t2] = "done"
        /\ sessionFile = NoFile

Completes(t) ==
    /\ pc'[t] \in {"done", "raised"}
    /\ Entered(t) \/ pc[t] \notin {"idle", "done", "raised"}

\* C10: for every photo or image-document event, the attachment file the handler
\* staged does not exist when the handler completes, on every exit path (download
\* failure, invocation error, delivery failure, success).  A file of the same path
\* that another running handler has staged is not counted.
C10_AttachmentRemoved ==
    [][\A t \in Tasks :
          (Completes(t) /\ loc'[t].image_path # NoImage) =>
              \/ loc'[t].image_path \notin imageFiles'
              \/ \E o \in Tasks \ {t} :
                    /\ pc'[o] \notin {"idle", "done", "raised"}
                    /\ loc'[o].image_path = loc'[t].image_path
      ]_vars


(***************************************************************************)
(* Errors of call_claude that are not session-invalid.                     *)
(***************************************************************************)
\* call_claude has returned in handler t
CallReturned(t) ==
    /\ ev[t].kind \in {"text", "photo", "document"}
    /\ storeOps[t] # <<>>
    /\ pc[t] \in {"respond", "reply_document", "finally", "done", "raised"}

\* C11: a call_claude that ends in an error that is not session-invalid (the binary
\* is not found, or the child exits with a code other than 0 and neither "session"
\* nor "continue" in stderr) has spawned at most one child, is not retried, returns
\* an error text, and has saved nothing; a recovery attempt that fails has saved
\* nothing either.
C11_ErrorsLeaveStore ==
    \A t \in Tasks :
        CallReturned(t) =>
            LET outs == loc[t].outs IN
            /\ outs = <<>> =>
                  /\ children[t] = <<>>
                  /\ loc[t].response = NotFoundText
                  /\ Saves(t) = <<>>
            /\ (outs # <<>> /\ outs[1].rc # 0 /\ ~SessionInvalid(outs[1])) =>
                  /\ Len(children[t]) = 1 /\ Len(outs) = 1
                  /\ loc[t].response = Concat(ErrorCallingPrefix, outs[1].stderr.txt)
                  /\ Saves(t) = <<>>
            /\ (Len(outs) = 2 /\ outs[2].rc # 0) =>
                  /\ loc[t].response = Concat(ErrorPrefix, outs[2].stderr.txt)
                  /\ Saves(t) = <<>>

\* the child failed with "fatal" on stderr: the user has been sent the error text
\* and no session file has been written
C11_Witness ==
    \E t \in Tasks :
        /\ CallReturned(t) /\ pc[t] = "done"
        /\ loc[t].outs = <<Exit(2, <<>>, Fatal)>>
        /\ Len(children[t]) = 1
        /\ Issued(t, "text") =
              <<Msg("text", "response", Concat(ErrorCallingPrefix, Fatal.txt), TRUE)>>
        /\ sessionFile = NoFile


(***************************************************************************)
(* SpecStore: every caller of load_session_data and save_session_data,     *)
(* started with no session file, with a file that is not JSON, and with    *)
(* the files an earlier run can have saved.                                *)
(***************************************************************************)
StoreInputs ==
    [CoreInputs EXCEPT
        !.scope_args = {<<>>, <<"~">>},
        !.send_args = {<<"pic.png">>},
        !.buttons = {"menu_main", "scope_root", "session_clear", "session_resume"},
        !.exits = {Exit(0, Short, NoStderr)}]

NextStore ==
    \E t \in Tasks :
        \/ handle_text(t, StoreInputs)
        \/ start(t, StoreInputs)
        \/ scope_cmd(t, StoreInputs)
        \/ send_file_cmd(t, StoreInputs)
        \/ button_handler(t, StoreInputs)
        \/ button_action(t, StoreInputs)
        \/ call_claude(t)
        \/ call_claude_exit(t, StoreInputs)
        \/ send_response(t, StoreInputs)
        \/ handler_finally(t)

SpecStore ==
    InitWith({NoFile, GarbageFile, FreshFile, ContinuedFile}, {TRUE}) /\ [][NextStore]_vars

\* the Session Store operations handler t makes in the step
OpsInStep(t) ==
    IF Entered(t) THEN storeOps'[t]
    ELSE SubSeq(storeOps'[t], Len(storeOps[t]) + 1, Len(storeOps'[t]))

\* C12: save then load is a round trip: right after a handler has saved a session
\* state s (scope and session token, absent or present), load_session_data returns
\* a state equal to s.
C12_SaveLoadRoundTrip ==
    [][\A t \in Tasks :
          SavedInStep(t) =>
              load_session_data(sessionFile') = storeOps'[t][Len(storeOps'[t])].data
      ]_vars

\* a state with a token and one without have both been saved and read back: the
\* running call marked the session continued, then /scope cleared the token
C12_Witness ==
    \E t1, t2 \in Tasks :
        /\ Saves(t1) # <<>> /\ Saves(t1)[1].data.session_id = "last"
        /\ Saves(t2) # <<>> /\ Saves(t2)[1].data = [session_id |-> None, scope |-> HomeDir]
        /\ Saves(t2)[1].prev.session_id = "last"
        /\ Stored = [session_id |-> None, scope |-> HomeDir]

\* C13: load_session_data fails open: when the session file is missing or is not
\* JSON, the handler that loads gets the default state (no session token, default
\* scope), no exception leaves it, and it goes on with that state: the child it
\* spawns runs in the default scope without a continuation flag.
C13_LoadFailsOpen ==
    [][\A t \in Tasks :
          (/\ OpsInStep(t) # <<>>
           /\ OpsInStep(t)[1].op = "load"
           /\ ~(sessionFile.exists /\ sessionFile.text.parses)) =>
              /\ OpsInStep(t)[1].data = [session_id |-> None, scope |-> DEFAULT_SCOPE]
              /\ pc'[t] # "raised"
              /\ loc'[t].session_data.scope \in {DEFAULT_SCOPE, HomeDir, "/"}
              /\ pc'[t] = "communicate" =>
                    /\ Len(children'[t]) = 1
                    /\ children'[t][1].cwd = DEFAULT_SCOPE
                    /\ children'[t][1].continue = None
      ]_vars

\* a text message is being handled over a session file that is not JSON: the child
\* runs in the default scope, and the file is still what it was
C13_Witness ==
    \E t \in Tasks :
        /\ ev[t].kind = "text" /\ pc[t] = "communicate"
        /\ storeOps[t] = <<LoadOp(DefaultSession)>>
        /\ children[t][1].cwd = DEFAULT_SCOPE
        /\ sessionFile = GarbageFile


(***************************************************************************)
(* SpecSend: /send for a file above the limit, one of exactly the limit, a *)
(* small image named relative to the scope, a directory, a missing path    *)
(* and no argument, while /scope moves the scope; every reply can fail.    *)
(***************************************************************************)
SendInputs ==
    [CoreInputs EXCEPT
        !.scope_args = {<<"~">>},
        !.send_args = {<<>>, <<"/data/big.bin">>, <<"/data/edge.bin">>, <<"pic.png">>,
                       <<"/data">>, <<"/missing">>},
        !.oks = BOOLEAN]

NextSend ==
    \E t \in Tasks :
        \/ send_file_cmd(t, SendInputs)
        \/ send_file_error(t, SendInputs)
        \/ scope_cmd(t, SendInputs)
        \/ error_handler(t, SendInputs)

SpecSend == InitWith({NoFile, ContinuedFile}, {TRUE}) /\ [][NextSend]_vars

\* the size in bytes of the regular file a /send handled in slot t names, -1 when
\* it names none
RequestedSize(t) ==
    IF ev[t].kind = "send" /\ ev[t].args # <<>> /\ storeOps[t] # <<>>
    THEN LET given == JoinArgs(ev[t].args)
             path == IF IsAbs(given) THEN given ELSE JoinPath(loc[t].scope, given)
         IN  IF FileInfo(path).exists /\ FileInfo(path).isfile
             THEN FileInfo(path).size ELSE -1
    ELSE -1

\* the calls of handler t that upload a file
Uploads(t) == SelectSeq(outbox[t], LAMBDA m : m.kind \in {"photo", "document"})

\* C14: send_file_cmd rejects a file of more than 50 MiB (52428800 bytes) with a
\* message that says so, before any send of the file is attempted; a file of exactly
\* 50 MiB or less is not rejected for its size: its upload is the first call made.
C14_SizeLimit ==
    \A t \in Tasks :
        /\ RequestedSize(t) > 52428800 =>
              /\ Uploads(t) = <<>>
              /\ outbox[t][1].kind = "text" /\ outbox[t][1].msg = "file_too_large"
        /\ (RequestedSize(t) >= 0 /\ RequestedSize(t) <= 52428800) =>
              /\ \A i \in DOMAIN outbox[t] : outbox[t][i].msg # "file_too_large"
              /\ Len(Uploads(t)) = 1
              /\ outbox[t][1] = Uploads(t)[1]

\* a file of exactly 50 MiB has been uploaded as a document
C14_Witness ==
    \E t \in Tasks :
        /\ pc[t] = "done"
        /\ RequestedSize(t) = 52428800
        /\ outbox[t] = <<Msg("document", "/data/edge.bin", <<>>, TRUE)>>


(***************************************************************************)
(* Unexpected errors.                                                      *)
(***************************************************************************)
\* an exception has left handler t and error_handler has run
Failed(t) == pc[t] = "done" /\ loc[t].exc

\* the position in the outbox of handler t of the call that raised, or of the last
\* call made to the requester when it is the staging of a file that raised
FailedCall(t) ==
    LET toUser == {i \in DOMAIN outbox[t] : outbox[t][i].kind # "owner"}
        failed == {i \in toUser : ~outbox[t][i].ok}
    IN  IF failed # {} THEN CHOOSE i \in failed : \A j \in failed : i <= j
        ELSE IF toUser # {} THEN CHOOSE i \in toUser : \A j \in toUser : j <= i
        ELSE 0

\* C15: when an unexpected error leaves a handler, a failure message is sent to the
\* requester of the event, the error is mirrored to the owner when an owner is
\* configured, and the handler's slot is free for later events.
C15_FailureReported ==
    \A t \in Tasks :
        Failed(t) =>
            /\ \E i \in DOMAIN outbox[t] :
                  /\ i > FailedCall(t)
                  /\ outbox[t][i].kind = "text"
            /\ Truthy(OWNER_CHAT_ID) => Len(Issued(t, "owner")) = 1
            /\ ~Active(t)


(***************************************************************************)
(* The continuation marker.                                                *)
(***************************************************************************)
\* call_claude has returned in handler t, which loaded a state without a session
\* token and whose last child exited with code 0
FreshRequestSucceeded(t) ==
    /\ CallReturned(t)
    /\ storeOps[t][1].data.session_id = None
    /\ loc[t].outs # <<>>
    /\ loc[t].outs[Len(loc[t].outs)].rc = 0

\* C16: whenever a request made with no stored session token ends with a child that
\* exits with code 0, on the first call or on the recovery call after a
\* session-invalid failure, the Session Store holds a continuation marker afterwards
\* (no other handler being in flight during the request).
C16_MarkerAfterSuccess ==
    \A t \in Tasks :
        (Active(t) /\ ~overlap[t] /\ FreshRequestSucceeded(t)) =>
            Stored.session_id # None


(***************************************************************************)
(* SpecLive: text messages under fair scheduling.  Every awaited call      *)
(* returns, every send succeeds and every child terminates, with any of    *)
(* the outcomes: an answer, a failure whose error text is too long for an  *)
(* inline message, a session-invalid failure; the binary can be missing.   *)
(***************************************************************************)
FatalLong == [words |-> {"fatal"}, txt |-> <<Run("f", TELEGRAM_MAX_LENGTH)>>]

LiveInputs ==
    [CoreInputs EXCEPT
        !.exits = {Exit(0, Short, NoStderr), Exit(1, <<>>, SessionExpired),
                   Exit(2, <<>>, FatalLong)}]

\* the steps of handler t after its start
Continue(t) ==
    \/ call_claude(t)
    \/ call_claude_exit(t, LiveInputs)
    \/ call_claude_new_session_exit(t, LiveInputs)
    \/ send_response(t, LiveInputs)
    \/ send_response_finally(t)
    \/ handler_finally(t)

NextLive == \E t \in Tasks : handle_text(t, LiveInputs) \/ Continue(t)

\* the event loop resumes every handler whose awaited call has returned
SpecLive ==
    /\ InitWith({ContinuedFile}, BOOLEAN)
    /\ [][NextLive]_vars
    /\ \A t \in Tasks : WF_vars(Continue(t))

\* the responses delivered by handler t: inline messages and attachments
Deliveries(t) ==
    SelectSeq(outbox[t], LAMBDA m : m.kind \in {"text", "document"} /\ m.ok)

\* C17: under fair scheduling, with children that terminate and sends that succeed,
\* every authorized text event leads to the completion of its handler with exactly
\* one response delivered, inline or as an attachment, whatever the outcome of the
\* invocation.
C17_TextIsAnswered ==
    \A t \in Tasks :
        (ev[t].kind = "text" /\ pc[t] = "send_action")
            ~> (pc[t] = "done" /\ Len(Deliveries(t)) = 1)

\* the recovery child failed and its error text has been delivered, once, as an
\* attachment
C17_Witness ==
    \E t \in Tasks :
        /\ ev[t].kind = "text" /\ pc[t] = "done"
        /\ Len(loc[t].outs) = 2 /\ loc[t].outs[2].rc # 0
        /\ Len(Deliveries(t)) = 1
        /\ Deliveries(t)[1].kind = "document"
        /\ Deliveries(t)[1].body = Concat(ErrorPrefix, loc[t].outs[2].stderr.txt)


(***************************************************************************)
(* The values of the session token.                                        *)
(***************************************************************************)
\* C18: starting from the default state, in every reachable state, after any
\* sequence and interleaving of operations, the stored session token is absent or
\* is "last", and no save has ever written another value.
C18_TokenAbsentOrLast ==
    /\ Stored.session_id \in {None, "last"}
    /\ \A t \in Tasks : \A i \in DOMAIN storeOps[t] :
          storeOps[t][i].data.session_id \in {None, "last"}

\* from no session file, the resume button has stored "last" while a call that
\* loaded no token is still running
C18_Witness ==
    \E t1, t2 \in Tasks :
        /\ pc[t1] = "communicate" /\ storeOps[t1] = <<LoadOp(DefaultSession)>>
        /\ ev[t2].kind = "button" /\ ev[t2].data = "session_resume" /\ pc[t2] = "done"
        /\ Saves(t2) # <<>> /\ Saves(t2)[1].prev.session_id = None
        /\ Stored.session_id = "last"


(***************************************************************************)
(* SpecRescope: a continued session; /scope and the preset buttons, the    *)
(* "new" preset among them, and text messages that invoke the assistant.   *)
(***************************************************************************)
RescopeInputs ==
    [CoreInputs EXCEPT
        !.scope_args = {<<"~">>},
        !.buttons = {"scope_new", "scope_root", "scope_home", "scope_documents"},
        !.exits = {Exit(0, Short, NoStderr)},
        !.nows = {0, 1}]

NextRescope ==
    \E t \in Tasks :
        \/ scope_cmd(t, RescopeInputs)
        \/ button_handler(t, RescopeInputs)
        \/ button_action(t, RescopeInputs)
        \/ handle_text(t, RescopeInputs)
        \/ call_claude(t)
        \/ call_claude_exit(t, RescopeInputs)
        \/ send_response(t, RescopeInputs)
        \/ handler_finally(t)

SpecRescope == InitWith({ContinuedFile}, {TRUE}) /\ [][NextRescope]_vars

\* handler t, with no other handler in flight, loads the session state and spawns
\* its first child in the step
Invokes(t) ==
    /\ pc[t] = "send_action" /\ pc'[t] = "communicate"
    /\ ~overlap[t]

\* C19: every successful scope change, by /scope or by a preset button, the "new"
\* preset included, saves the new scope and no session token in one save; so the
\* invocation that follows it with no other handler in flight (the one that finds the
\* record the scope change saved) runs in the new scope without a continuation flag.
C19_ScopeChangeResetsSession ==
    [][\A t \in Tasks :
          /\ (SavedInStep(t) /\ ScopeRequest(t)') =>
                storeOps'[t][Len(storeOps'[t])].data =
                    [session_id |-> None, scope |-> RequestedScope(t)']
          /\ (Invokes(t) /\ Stored.session_id = None) =>
                /\ children'[t][1].cwd = Stored.scope
                /\ children'[t][1].continue = None
      ]_vars

\* after the "new" preset, a text message runs in the project directory just made,
\* without --continue
C19_Witness ==
    \E t \in Tasks :
        /\ ev[t].kind = "text" /\ pc[t] = "communicate" /\ ~overlap[t]
        /\ children[t] = <<Child(None, NoImage, "hello", NewProjectPath(0))>>


(***************************************************************************)
(* The attachment during the call.                                         *)
(***************************************************************************)
\* C20: while a call_claude that was given an attachment path is running, from the
\* spawn of its first child until its last child has exited, the file at that path
\* exists: no other handler deletes it, not even one that handles another event with
\* the same file identifier and so stages to the same path.
C20_AttachmentKeptDuringCall ==
    \A t \in Tasks :
        (pc[t] \in {"communicate", "communicate_new"} /\ loc[t].image_path # NoImage) =>
            loc[t].image_path \in imageFiles

====
